---- MODULE Spec2Model ----
(***************************************************************************)
(* A model of recover.py, the JWT public-key recovery tool: the dispatcher *)
(* of the __main__ block, handleRSA / handleECDSA, recoverRSAKey with its  *)
(* numeric helpers (genKey, getHash, removeSmallPrimes, getKeysize) and    *)
(* recoverECDSAKey.                                                        *)
(*                                                                         *)
(* Python integers are unbounded.  Values that can exceed 31 bits (the     *)
(* powers sig**e, their differences, the gcd) are kept as little-endian    *)
(* sequences of limbs in base 2^15; << >> is zero and the top limb is never *)
(* zero.  Values that stay below 2^31 (moduli, signatures, hashes) are     *)
(* plain integers.                                                         *)
(***************************************************************************)
EXTENDS Integers, Sequences, FiniteSets, TLC

\* ------------------------------------------------------------------------
\* Unbounded integers (Python int / gmpy2.mpz)
\* ------------------------------------------------------------------------

Base == 2^15

\* A local name of Python: e is evaluated once and F works on its value.
Bind(e, F(_)) == CHOOSE r \in {F(x) : x \in {e}} : TRUE
Bind2(e1, e2, F(_, _)) == CHOOSE r \in {F(x, y) : x \in {e1}, y \in {e2}} : TRUE

RECURSIVE Big(_)
Big(n) == IF n = 0 THEN << >> ELSE <<n % Base>> \o Big(n \div Base)

RECURSIVE BigVal(_)
BigVal(a) == IF a = << >> THEN 0 ELSE Head(a) + Base * BigVal(Tail(a))

RECURSIVE BigNorm(_)
BigNorm(a) ==
  IF a = << >> THEN << >>
  ELSE IF a[Len(a)] = 0 THEN Bind(SubSeq(a, 1, Len(a) - 1), LAMBDA x : BigNorm(x))
  ELSE a

Limb(a, i) == IF i <= Len(a) THEN a[i] ELSE 0

RECURSIVE CmpFrom(_, _, _)
CmpFrom(a, b, i) ==
  IF i = 0 THEN 0
  ELSE IF a[i] > b[i] THEN 1
  ELSE IF a[i] < b[i] THEN -1
  ELSE CmpFrom(a, b, i - 1)

BigCmp(a, b) ==
  Bind2(a, b, LAMBDA x, y : IF Len(x) > Len(y) THEN 1
                            ELSE IF Len(x) < Len(y) THEN -1
                            ELSE CmpFrom(x, y, Len(x)))

RECURSIVE AddFrom(_, _, _, _)
AddFrom(a, b, i, carry) ==
  IF i > Len(a) /\ i > Len(b)
  THEN (IF carry = 0 THEN << >> ELSE <<carry>>)
  ELSE Bind2(Limb(a, i) + Limb(b, i) + carry, i + 1,
             LAMBDA t, j : <<t % Base>> \o AddFrom(a, b, j, t \div Base))

BigAdd(a, b) == Bind2(a, b, LAMBDA x, y : AddFrom(x, y, 1, 0))

\* a - b for a >= b
RECURSIVE SubFrom(_, _, _, _)
SubFrom(a, b, i, borrow) ==
  IF i > Len(a) THEN << >>
  ELSE Bind2(a[i] - Limb(b, i) - borrow, i + 1,
             LAMBDA t, j : IF t < 0 THEN <<t + Base>> \o SubFrom(a, b, j, 1)
                           ELSE <<t>> \o SubFrom(a, b, j, 0))

BigSub(a, b) == Bind2(a, b, LAMBDA x, y : BigNorm(SubFrom(x, y, 1, 0)))

\* |a - b|
BigAbsDiff(a, b) ==
  Bind2(a, b, LAMBDA x, y : IF BigCmp(x, y) >= 0 THEN BigSub(x, y) ELSE BigSub(y, x))

\* a * m for one limb 0 <= m < Base
RECURSIVE MulSmallFrom(_, _, _, _)
MulSmallFrom(a, m, i, carry) ==
  IF i > Len(a) THEN (IF carry = 0 THEN << >> ELSE <<carry>>)
  ELSE Bind2(a[i] * m + carry, i + 1,
             LAMBDA t, j : <<t % Base>> \o MulSmallFrom(a, m, j, t \div Base))

BigMulSmall(a, m) ==
  Bind2(a, m, LAMBDA x, y : IF y = 0 THEN << >> ELSE MulSmallFrom(x, y, 1, 0))

RECURSIVE BigMul(_, _)
BigMul(a, b) ==
  IF b = << >> \/ a = << >> THEN << >>
  ELSE Bind(BigMul(a, Tail(b)),
            LAMBDA rest : BigAdd(BigMulSmall(a, Head(b)),
                                 IF rest = << >> THEN << >> ELSE <<0>> \o rest))

RECURSIVE BigPow(_, _)
BigPow(a, k) ==
  IF k = 0 THEN <<1>> ELSE Bind2(a, BigPow(a, k - 1), LAMBDA x, y : BigMul(x, y))

\* a % m and a // m for 0 < m < Base
RECURSIVE ModSmallFrom(_, _, _, _)
ModSmallFrom(a, m, i, r) ==
  IF i = 0 THEN r
  ELSE Bind2((r * Base + a[i]) % m, i - 1, LAMBDA t, j : ModSmallFrom(a, m, j, t))

BigModSmall(a, m) == Bind2(a, m, LAMBDA x, y : ModSmallFrom(x, y, Len(x), 0))

RECURSIVE DivSmallFrom(_, _, _, _)
DivSmallFrom(a, m, i, r) ==
  IF i = 0 THEN << >>
  ELSE Bind2(r * Base + a[i], i - 1,
             LAMBDA cur, j : Append(DivSmallFrom(a, m, j, cur % m), cur \div m))

BigDivSmall(a, m) == Bind2(a, m, LAMBDA x, y : BigNorm(DivSmallFrom(x, y, Len(x), 0)))

BigIsEven(a) == a = << >> \/ a[1] % 2 = 0

\* int.bit_length()
RECURSIVE BitLength(_)
BitLength(n) == IF n = 0 THEN 0 ELSE 1 + BitLength(n \div 2)

BigBitLength(a) ==
  IF a = << >> THEN 0 ELSE 15 * (Len(a) - 1) + BitLength(a[Len(a)])

\* A Python while loop: the body F is repeated as long as the condition C
\* holds.  fuel bounds the number of iterations from above; the recursion
\* halves it so that the evaluation depth stays logarithmic.
\* Every intermediate state is bound as a value before the loop goes on.
RECURSIVE Loop(_, _, _, _)
Loop(C(_), F(_), s, fuel) ==
  IF fuel = 0 \/ ~C(s) THEN s
  ELSE IF fuel = 1 THEN F(s)
  ELSE Bind2(Loop(C, F, s, fuel \div 2), fuel - fuel \div 2,
             LAMBDA m, k : Loop(C, F, m, k))

While(C(_), F(_), s, fuel) == Bind2(s, fuel, LAMBDA m, k : Loop(C, F, m, k))

\* gmpy2.gcd on non-negative operands (binary gcd; gcd(0, b) = b)
GcdMore(st) == st.a # << >> /\ st.b # << >>

GcdStep(st) ==
  IF BigIsEven(st.a) /\ BigIsEven(st.b)
  THEN [a |-> BigDivSmall(st.a, 2), b |-> BigDivSmall(st.b, 2), twos |-> st.twos + 1]
  ELSE IF BigIsEven(st.a) THEN [st EXCEPT !.a = BigDivSmall(st.a, 2)]
  ELSE IF BigIsEven(st.b) THEN [st EXCEPT !.b = BigDivSmall(st.b, 2)]
  ELSE IF BigCmp(st.a, st.b) >= 0
       THEN [st EXCEPT !.a = BigDivSmall(BigSub(st.a, st.b), 2)]
  ELSE [st EXCEPT !.b = BigDivSmall(BigSub(st.b, st.a), 2)]

ShiftMore(st) == st.twos > 0
ShiftStep(st) == [st EXCEPT !.a = BigMulSmall(st.a, 2), !.twos = st.twos - 1]

GcdLoop(a, b) ==
  While(GcdMore, GcdStep, [a |-> a, b |-> b, twos |-> 0],
        2 * (BigBitLength(a) + BigBitLength(b)) + 1)

GcdShift(end) ==
  While(ShiftMore, ShiftStep,
        [a |-> BigAdd(end.a, end.b), twos |-> end.twos], end.twos).a

BigGcd(a, b) == Bind(Bind2(a, b, GcdLoop), GcdShift)

\* ------------------------------------------------------------------------
\* Numeric helpers of the RSA engine
\* ------------------------------------------------------------------------

SmallPrimeLimit == 2000

\* Primality by trial division, for n < 2^16.
IsPrime(n) == n > 1 /\ \A d \in 2..(2^8 - 1) : d * d > n \/ n % d # 0

\* gmpy2.next_prime(i): the least prime above i, tabulated once for the
\* values the loop of removeSmallPrimes passes through.
NextPrimeTable ==
  [i \in 2..(SmallPrimeLimit - 1) |->
     CHOOSE p \in (i + 1)..(2 * i) :
       IsPrime(p) /\ \A r \in (i + 1)..(p - 1) : ~IsPrime(r)]

next_prime(i) == NextPrimeTable[i]

\* removeSmallPrimes(x), lines 37-43: one pass over the primes below 2000;
\* the test "if x % i == 0" divides x by i at most once for every prime i.
SmallPrimeMore(st) == st.i < SmallPrimeLimit

SmallPrimeStep(st) ==
  [x |-> IF BigModSmall(st.x, st.i) = 0 THEN BigDivSmall(st.x, st.i) ELSE st.x,
   i |-> next_prime(st.i)]

removeSmallPrimes(x) ==
  While(SmallPrimeMore, SmallPrimeStep, [x |-> x, i |-> 2], SmallPrimeLimit).x

\* getKeysize(sig), lines 45-47: pow(2, ceil(log2(sig.bit_length()))).
\* math.log(sig_size, 2) is a floating-point quotient; it is exact at every
\* power of two below 2^29 and rounds to the right side of every integer for
\* the bit lengths a command-line token can carry, so the ceiling is the
\* integer one.  sig = 0 (bit length 0) raises ValueError in math.log.
RECURSIVE CeilLog2(_)
CeilLog2(n) == IF n <= 1 THEN 0 ELSE 1 + CeilLog2((n + 1) \div 2)

\* The key size with the logarithm rounded down, not up.
RECURSIVE FloorLog2(_)
FloorLog2(n) == IF n <= 1 THEN 0 ELSE 1 + FloorLog2(n \div 2)

getKeysizeFloor(sig) == 2^FloorLog2(BigBitLength(sig))

getKeysize(sig) == 2^CeilLog2(BigBitLength(sig))

\* Arithmetic modulo m < 2^31 without leaving 31 bits.
AddMod(a, b, m) == IF a >= m - b THEN a - (m - b) ELSE a + b

BitsMore(st) == st.k > 0

MulModStep(st) ==
  [acc |-> IF st.k % 2 = 1 THEN AddMod(st.acc, st.a, st.m) ELSE st.acc,
   a   |-> AddMod(st.a, st.a, st.m),
   k   |-> st.k \div 2,
   m   |-> st.m]

MulMod(a, b, m) ==
  While(BitsMore, MulModStep, [acc |-> 0, a |-> a % m, k |-> b, m |-> m], 32).acc

\* pow(b, k, m)
PowModStep(st) ==
  [acc |-> IF st.k % 2 = 1 THEN MulMod(st.acc, st.a, st.m) ELSE st.acc,
   a   |-> MulMod(st.a, st.a, st.m),
   k   |-> st.k \div 2,
   m   |-> st.m]

PowMod(b, k, m) ==
  While(BitsMore, PowModStep, [acc |-> 1 % m, a |-> b % m, k |-> k, m |-> m], 32).acc

\* gmpy2.invert(a, m) by the extended Euclidean algorithm: the inverse of a
\* modulo m, or -1 where gmpy2 raises ZeroDivisionError (no inverse).
EuclidMore(st) == st.r1 # 0

EuclidStep(st) ==
  LET q == st.r0 \div st.r1
  IN  [r0 |-> st.r1, r1 |-> st.r0 - q * st.r1,
       t0 |-> st.t1, t1 |-> st.t0 - q * st.t1]

invert(a, m) ==
  Bind(While(EuclidMore, EuclidStep,
             [r0 |-> m, r1 |-> a % m, t0 |-> 0, t1 |-> 1], 64),
       LAMBDA end : IF end.r0 = 1 THEN end.t0 % m ELSE -1)

\* ------------------------------------------------------------------------
\* Tokens
\* ------------------------------------------------------------------------
\* A token is the command-line string after the "-" / "_" replacement of
\* line 154, described by what the program can observe of it:
\*   segs    the number of "."-separated segments,
\*   header  how segment 0 decodes: kind "json" (a JSON object with an alg
\*           string, alg given as its characters), "noalg" (JSON without
\*           alg), "notjson" or "badb64",
\*   body    segment 1, a number standing for its text,
\*   sig     how segment 2 decodes: kind "bytes" with the decoded bytes, or
\*           "badb64".
\* A token of EcIssued carries beside these the public key of the key pair
\* that signed it (issuer), which the program never reads.

Str(alg) == [kind |-> "json", alg |-> alg]

RS256 == <<"R", "S", "2", "5", "6">>
RS384 == <<"R", "S", "3", "8", "4">>
RS512 == <<"R", "S", "5", "1", "2">>
ES256 == <<"E", "S", "2", "5", "6">>
ES384 == <<"E", "S", "3", "8", "4">>
ES512 == <<"E", "S", "5", "1", "2">>

\* int(bytes.hex(), 16), big-endian
RECURSIVE BytesToBig(_)
BytesToBig(bs) ==
  IF bs = << >> THEN << >>
  ELSE Bind(SubSeq(bs, 1, Len(bs) - 1),
            LAMBDA front : BigAdd(BigMulSmall(BytesToBig(front), 256),
                                  Big(bs[Len(bs)])))

RECURSIVE IntToBytes(_, _)
IntToBytes(v, k) ==
  IF k = 0 THEN << >>
  ELSE Bind2(v, k, LAMBDA x, j : Append(IntToBytes(x \div 256, j - 1), x % 256))

\* Crypto.Hash.SHA256 / SHA384 / SHA512 over header + "." + body, as a
\* digest of one byte: a fixed function of the algorithm and the message.
HashMult(hashalg) ==
  CASE hashalg = "SHA256" -> 167 [] hashalg = "SHA384" -> 91 [] hashalg = "SHA512" -> 229

Digest(hashalg, header, body) ==
  (HashMult(hashalg) * (body + 7 * Len(header.alg)) + Len(hashalg) + HashMult(hashalg)) % 256

DigestLen == 1

\* EMSA-PKCS1-v1_5 for a modulus of k bytes: 00 01 FF..FF 00 T, with the
\* one-byte digest as T.  The encoding exists only if the block is long
\* enough (k >= |T| + 3 here, |T| + 11 in the library); otherwise
\* pkcs1_15.sign raises ValueError.  -1 stands for the raise.
RECURSIVE Padding(_, _)
Padding(from, to) ==
  IF from > to THEN 0 ELSE 255 * 256^from + Padding(from + 1, to)

EmsaEncode(digest, k) ==
  IF k < DigestLen + 3 THEN -1
  ELSE 256^(k - 2) + Padding(DigestLen + 1, k - 3) + digest

SizeInBytes(n) == (BitLength(n) + 7) \div 8

\* ------------------------------------------------------------------------
\* genKey and getHash
\* ------------------------------------------------------------------------

\* Crypto.Util.number.getPrime(N): a random N-bit prime.  The model draws
\* from the N-bit primes of a window above 2^(N-1).
PrimeWindow == 16

GetPrime(N) ==
  {p \in (2^(N - 1))..(2^(N - 1) + PrimeWindow) : p < 2^N /\ IsPrime(p)}

\* One pass of the loop of genKey (lines 19-25) that drew p and q, and the
\* construction of line 26.  d = -1: gmpy2.invert raised ZeroDivisionError
\* and the loop draws again.  RSA.construct computes u = p^-1 mod q and
\* raises ValueError when p = q.
KeyExponent(p, q, e) == invert(e, (p - 1) * (q - 1))

RsaConstruct(p, q, e, d) ==
  IF p = q THEN [raise |-> "ValueError"]
  ELSE [raise |-> "", n |-> p * q, e |-> e, d |-> d, p |-> p, q |-> q]

\* getHash(header, body, hashalg, key), lines 28-35: sign the message with
\* the key, then undo the signature with the key's public exponent.
Pkcs1Sign(digest, key) ==
  Bind(EmsaEncode(digest, SizeInBytes(key.n)),
       LAMBDA em : IF em = -1 THEN -1 ELSE PowMod(em, key.d, key.n))

\* getHash without line 34: the signature itself, not pow(sig, e, n).
getHashSigned(header, body, hashalg, key) ==
  Pkcs1Sign(Digest(hashalg, header, body), key)

getHash(header, body, hashalg, key) ==
  Bind(Pkcs1Sign(Digest(hashalg, header, body), key),
       LAMBDA sig : IF sig = -1 THEN -1 ELSE PowMod(sig, key.e, key.n))

\* Lines 64-66 of recoverRSAKey: the gcd of the two differences, stripped
\* of small primes.  gmpy2.gcd takes the operands' absolute values.
RecoverModulus(sig_num1, sig_num2, e, h1, h2) ==
  removeSmallPrimes(BigGcd(BigAbsDiff(BigPow(sig_num1, e), Big(h1)),
                           BigAbsDiff(BigPow(sig_num2, e), Big(h2))))

\* ------------------------------------------------------------------------
\* Curve arithmetic of the ECDSA engine (fastecdsa)
\* ------------------------------------------------------------------------
\* The curves stand for fastecdsa's P256, P384 and P521: short Weierstrass
\* curves y^2 = x^3 + a*x + b over a prime field with p % 4 = 3, a = -3 and
\* a base point of prime order q slightly below p, at a size where a
\* coordinate and a scalar fit in one byte.
P256 == [name |-> "P256", p |-> 139, a |-> 136, b |-> 43, q |-> 137, gx |-> 75, gy |-> 55]
P384 == [name |-> "P384", p |-> 151, a |-> 148, b |-> 6, q |-> 149, gx |-> 1, gy |-> 2]
P521 == [name |-> "P521", p |-> 199, a |-> 196, b |-> 6, q |-> 197, gx |-> 1, gy |-> 2]

\* Point.IDENTITY_ELEMENT has the coordinates (0, 0).
Identity == [inf |-> TRUE, x |-> 0, y |-> 0]
Affine(x, y) == [inf |-> FALSE, x |-> x, y |-> y]

\* Curve.is_point_on_curve
OnCurve(x, y, curve) ==
  LET xr == x % curve.p
  IN  (y * y) % curve.p = (xr * xr * xr + curve.a * xr + curve.b) % curve.p

PointNeg(P, curve) ==
  IF P.inf THEN P ELSE Affine(P.x, (curve.p - P.y) % curve.p)

\* Point.__add__: the group law
PointSum(P, Q, curve) ==
  IF P.inf THEN Q
  ELSE IF Q.inf THEN P
  ELSE IF P.x = Q.x /\ (P.y + Q.y) % curve.p = 0 THEN Identity
  ELSE Bind(IF P = Q
            THEN ((3 * P.x * P.x + curve.a) * invert(2 * P.y, curve.p)) % curve.p
            ELSE (((Q.y - P.y) % curve.p) * invert((Q.x - P.x) % curve.p, curve.p)) % curve.p,
            LAMBDA l : Bind((l * l - P.x - Q.x) % curve.p,
                            LAMBDA x : Affine(x, (l * (P.x - x) - P.y) % curve.p)))

PointAdd(P, Q, curve) == Bind2(P, Q, LAMBDA A, B : PointSum(A, B, curve))

\* Point.__sub__
PointSub(P, Q, curve) == PointAdd(P, PointNeg(Q, curve), curve)

\* Point.__rmul__: scalar * point, for a scalar >= 0
PointMulStep(st) ==
  [acc   |-> IF st.k % 2 = 1 THEN PointAdd(st.acc, st.pt, st.curve) ELSE st.acc,
   pt    |-> PointAdd(st.pt, st.pt, st.curve),
   k     |-> st.k \div 2,
   curve |-> st.curve]

PointMul(k, P, curve) ==
  While(BitsMore, PointMulStep,
        [acc |-> Identity, pt |-> P, k |-> k, curve |-> curve], 32).acc

\* fastecdsa.util.mod_sqrt(a, p) for p % 4 = 3: x = a^((p-3)/4 + 1) mod p
\* and its negative, whether or not a is a square.
mod_sqrt(a, p) ==
  Bind(PowMod(a, (p - 3) \div 4 + 1, p), LAMBDA x : <<x, (p - x) % p>>)

\* ------------------------------------------------------------------------
\* The tokens and command lines the model runs the program on
\* ------------------------------------------------------------------------

Bytes(bs) == [kind |-> "bytes", bytes |-> bs]
Min(a, b) == IF a <= b THEN a ELSE b

\* The issuer of the RSA tokens: a key of two 16-bit primes, e = 3.
IssuerKey == RsaConstruct(32771, 32789, 3, KeyExponent(32771, 32789, 3))

MaxBody == 7
MinBody == Min(5, MaxBody)
Bodies == MinBody..MaxBody

\* A token signed with RSASSA-PKCS1-v1_5 by the issuer.
RsaToken(alg, hashalg, body) ==
  [segs |-> 3, header |-> Str(alg), body |-> body,
   sig |-> Bytes(IntToBytes(Pkcs1Sign(Digest(hashalg, Str(alg), body), IssuerKey),
                            SizeInBytes(IssuerKey.n)))]

RsaSigned == {RsaToken(RS256, "SHA256", b) : b \in Bodies}

\* ECDSA: private key d, nonce k.  r = (k*G).x mod q, s = k^-1 (h + r*d) mod q.
EcdsaSign(curve, hashalg, alg, d, k, body) ==
  Bind2(PointMul(k, Affine(curve.gx, curve.gy), curve).x % curve.q,
        Digest(hashalg, Str(alg), body),
        LAMBDA r, h :
          [r |-> r, s |-> (invert(k, curve.q) * ((h + r * d) % curve.q)) % curve.q])

EcToken(alg, rs, body) ==
  [segs |-> 3, header |-> Str(alg), body |-> body, sig |-> Bytes(rs)]

MaxPriv == 5
MaxNonce == 6

EcIssue(d, k, body) ==
  Bind(EcdsaSign(P256, "SHA256", ES256, d, k, body),
       LAMBDA sg : [tok |-> [segs |-> 3, header |-> Str(ES256), body |-> body,
                            sig |-> Bytes(<<sg.r, sg.s>>),
                            issuer |-> PointMul(d, Affine(P256.gx, P256.gy), P256)],
                    valid |-> sg.r # 0 /\ sg.s # 0])

\* Every ES256 token an issuer with a private key in 1..MaxPriv can produce
\* with a nonce in 1..MaxNonce (a signer rejects r = 0 and s = 0), with the
\* issuer's public key beside it.
EcIssued ==
  {x \in {EcIssue(d, k, b) : d \in 1..MaxPriv, k \in 1..MaxNonce, b \in Bodies} : x.valid}

EcSigned == {x.tok : x \in EcIssued}

\* Other command-line tokens: other algorithms, and tokens that are not
\* well formed.
Plain(alg) == [segs |-> 3, header |-> Str(alg), body |-> MinBody, sig |-> Bytes(<<1, 2>>)]

OtherTokens ==
  {RsaToken(RS384, "SHA384", MinBody), RsaToken(RS512, "SHA512", MinBody),
   Plain(<<"R", "S", "1">>), Plain(<<"P", "S", "2", "5", "6">>), Plain(<<"P", "S">>),
   Plain(<<"H", "S", "2", "5", "6">>), Plain(<<"H", "S", "5", "1", "2">>),
   Plain(<<"n", "o", "n", "e">>), Plain(<<"E">>), Plain(<<"E", "S", "2", "5", "6", "K">>),
   \* first sample nonce of the other two curves
   Bind(EcdsaSign(P384, "SHA384", ES384, 2, 3, MinBody),
        LAMBDA sg : EcToken(ES384, <<sg.r, sg.s>>, MinBody)),
   Bind(EcdsaSign(P521, "SHA512", ES512, 2, 3, MinBody),
        LAMBDA sg : EcToken(ES512, <<sg.r, sg.s>>, MinBody)),
   \* ES256 with an odd number of signature bytes, with an r that is no
   \* x-coordinate of the curve, with r = 0, and with no signature bytes
   EcToken(ES256, <<1, 61, 7>>, MinBody), EcToken(ES256, <<2, 9>>, MinBody),
   EcToken(ES256, <<0, 9>>, MinBody), EcToken(ES256, << >>, MinBody),
   \* RS256 with a short signature and with none
   [segs |-> 3, header |-> Str(RS256), body |-> MinBody, sig |-> Bytes(<<1, 2>>)],
   [segs |-> 3, header |-> Str(RS256), body |-> MinBody, sig |-> Bytes(<<0, 0, 0, 0>>)],
   [segs |-> 3, header |-> Str(RS256), body |-> MinBody, sig |-> Bytes(<< >>)],
   \* segments, header and signature that do not decode
   [RsaToken(RS256, "SHA256", MinBody) EXCEPT !.segs = 2],
   [RsaToken(RS256, "SHA256", MinBody) EXCEPT !.segs = 4],
   [EcToken(ES256, <<1, 61>>, MinBody) EXCEPT !.segs = 1],
   [RsaToken(RS256, "SHA256", MinBody) EXCEPT !.sig = [kind |-> "badb64", bytes |-> << >>]],
   [Plain(<< >>) EXCEPT !.header = [kind |-> "noalg", alg |-> << >>]],
   [Plain(<< >>) EXCEPT !.header = [kind |-> "notjson", alg |-> << >>]],
   [Plain(<< >>) EXCEPT !.header = [kind |-> "badb64", alg |-> << >>]]}

\* The tokens of command lines with two tokens: all but the bulk of the
\* signed ES256 tokens, of which two stay.
CmdTokens ==
  RsaSigned \cup OtherTokens \cup {EcIssue(1, k, MinBody).tok : k \in 1..2}

AllTokens == CmdTokens \cup EcSigned

Exponents == {3, 5}

\* ------------------------------------------------------------------------
\* The program
\* ------------------------------------------------------------------------
\*   argv   the parsed command line (getArgs, with line 154 applied)
\*   pc     the function about to run; "exit" after normal termination,
\*          "raise" after an uncaught exception
\*   alg    main's alg
\*   frame  the locals of the running engine
\*   out    the lines printed so far
\*   calls  the functions and operations executed so far
\*   exc    the uncaught exception, "" if none
VARIABLES argv, pc, alg, frame, out, calls, exc

vars == <<argv, pc, alg, frame, out, calls, exc>>

NoFrame == [fn |-> "none"]

Init ==
  /\ argv \in {[tokens |-> ts, e |-> e, compressed |-> c] :
                 ts \in {<<t>> : t \in AllTokens}
                        \cup {<<t1, t2>> : t1 \in CmdTokens, t2 \in CmdTokens},
                 e \in Exponents, c \in BOOLEAN}
  /\ pc = "main"
  /\ alg = << >>
  /\ frame = NoFrame
  /\ out = << >>
  /\ calls = {}
  /\ exc = ""

Raise(e) ==
  /\ pc' = "raise"
  /\ exc' = e

\* json.loads(base64.b64decode(header + "=="))["alg"], lines 159-160 and
\* 111-112: the exception it raises, "" if it yields the alg.
HeaderError(header) ==
  CASE header.kind = "badb64"  -> "binascii.Error"
    [] header.kind = "notjson" -> "JSONDecodeError"
    [] header.kind = "noalg"   -> "KeyError"
    [] OTHER                   -> ""

\* alg[:2]
Prefix2(a) == SubSeq(a, 1, Min(2, Len(a)))

\* A dispatcher that takes every alg ending in "S" for an RSA signature.
DispatchBySecondLetter(a) ==
  CASE Prefix2(a) = <<"E", "S">> -> "handleECDSA"
    [] Prefix2(a) = <<"H", "S">> -> "hmac"
    [] Len(a) >= 2 /\ a[2] = "S" -> "handleRSA"
    [] OTHER                     -> "unsupported"

\* The branch of lines 163-175.
Dispatch(a) ==
  CASE Prefix2(a) = <<"R", "S">> -> "handleRSA"
    [] Prefix2(a) = <<"P", "S">> -> "pss"
    [] Prefix2(a) = <<"E", "S">> -> "handleECDSA"
    [] Prefix2(a) = <<"H", "S">> -> "hmac"
    [] OTHER                     -> "unsupported"

\* __main__, lines 149-175
Main ==
  /\ pc = "main"
  /\ LET header1 == argv.tokens[1].header
         err == HeaderError(header1)
         to == Dispatch(header1.alg)
     IN  IF err # ""
         THEN Raise(err) /\ UNCHANGED <<alg, out, calls>>
         ELSE /\ alg' = header1.alg
              /\ exc' = exc
              /\ IF to \in {"handleRSA", "handleECDSA"}
                 THEN pc' = to /\ calls' = calls \cup {to} /\ out' = out
                 ELSE pc' = "exit" /\ calls' = calls /\ out' = Append(out, <<to, header1.alg>>)
  /\ UNCHANGED <<argv, frame>>

RsaHash(a) ==
  CASE a = RS256 -> "SHA256" [] a = RS384 -> "SHA384" [] a = RS512 -> "SHA512"
    [] OTHER -> ""

\* A comparison of the algorithm families only, not of the whole alg.
AlgFamilyMismatch(next_alg, a) == Prefix2(next_alg) # Prefix2(a)

\* Line 113: next_alg != alg
AlgMismatch(next_alg, a) == next_alg # a

\* handleRSA(alg, tokens, e), lines 104-125
HandleRSA ==
  /\ pc = "handleRSA"
  /\ IF Len(argv.tokens) < 2
     THEN /\ out' = Append(out, <<"2 tokens are needed", alg>>)
          /\ pc' = "exit"
          /\ UNCHANGED <<frame, calls, exc>>
     ELSE LET header2 == argv.tokens[2].header
              err == HeaderError(header2)
          IN  IF err # ""
              THEN Raise(err) /\ UNCHANGED <<frame, out, calls>>
              ELSE IF AlgMismatch(header2.alg, alg)
              THEN /\ out' = Append(out, <<"not the same algorithm", header2.alg, alg>>)
                   /\ pc' = "exit"
                   /\ UNCHANGED <<frame, calls, exc>>
              ELSE IF RsaHash(alg) # ""
              THEN /\ out' = Append(out, <<"Recovering", alg>>)
                   /\ pc' = "recoverRSAKey"
                   /\ calls' = calls \cup {"recoverRSAKey"}
                   /\ frame' = [fn |-> "recoverRSAKey", token1 |-> argv.tokens[1],
                                token2 |-> argv.tokens[2], e |-> argv.e,
                                hashalg |-> RsaHash(alg)]
                   /\ exc' = exc
              ELSE /\ out' = Append(Append(out, <<"Recovering", alg>>), <<"unsupported", alg>>)
                   /\ pc' = "exit"
                   /\ UNCHANGED <<frame, calls, exc>>
  /\ UNCHANGED <<argv, alg>>

\* header, body, sig = token.split("."); int(base64.b64decode(sig + "==").hex(), 16):
\* the exception raised, "" if none.
SigError(token) ==
  IF token.segs # 3 THEN "ValueError"
  ELSE IF token.sig.kind # "bytes" THEN "binascii.Error"
  ELSE IF token.sig.bytes = << >> THEN "ValueError"
  ELSE ""

\* recoverRSAKey, lines 50-55: the two signatures and the key size
RecoverRSADecode ==
  /\ pc = "recoverRSAKey"
  /\ LET e1 == IF frame.token1.segs # 3 \/ frame.token2.segs # 3 THEN "ValueError"
               ELSE IF SigError(frame.token1) # "" THEN SigError(frame.token1)
               ELSE SigError(frame.token2)
     IN  IF e1 # ""
         THEN Raise(e1) /\ UNCHANGED <<frame, calls>>
         ELSE \E sig_num1 \in {BytesToBig(frame.token1.sig.bytes)},
                 sig_num2 \in {BytesToBig(frame.token2.sig.bytes)} :
                  IF sig_num1 = << >>
                  THEN Raise("ValueError") /\ UNCHANGED <<frame, calls>>
                  ELSE /\ frame' = [fn |-> "recoverRSAKey", token1 |-> frame.token1,
                                    token2 |-> frame.token2, e |-> frame.e,
                                    hashalg |-> frame.hashalg, sig_num1 |-> sig_num1,
                                    sig_num2 |-> sig_num2, ks |-> getKeysize(sig_num1)]
                       /\ calls' = calls \cup {"getKeysize"}
                       /\ pc' = "genKey"
                       /\ exc' = exc
  /\ UNCHANGED <<argv, alg, out>>

\* genKey(ks, e), lines 16-26: a pass of the loop whose draw has no inverse
\* of e, and the loop goes round again
GenKeyRetry ==
  /\ pc = "genKey"
  /\ frame.ks \div 2 >= 2
  /\ \E p \in GetPrime(frame.ks \div 2), q \in GetPrime(frame.ks \div 2) :
       KeyExponent(p, q, frame.e) = -1
  /\ calls' = calls \cup {"genKey"}
  /\ UNCHANGED <<argv, pc, alg, frame, out, exc>>

\* genKey(ks, e): the pass that leaves the loop, and RSA.construct.
\* getPrime(N) raises ValueError for N < 2.
GenKey ==
  /\ pc = "genKey"
  /\ calls' = calls \cup {"genKey"}
  /\ IF frame.ks \div 2 < 2
     THEN Raise("ValueError") /\ UNCHANGED frame
     ELSE \E p \in GetPrime(frame.ks \div 2), q \in GetPrime(frame.ks \div 2) :
            LET d == KeyExponent(p, q, frame.e)
                key == RsaConstruct(p, q, frame.e, d)
            IN  /\ d # -1
                /\ IF key.raise # ""
                   THEN Raise(key.raise) /\ UNCHANGED frame
                   ELSE /\ frame' = [fn |-> "recoverRSAKey", token1 |-> frame.token1,
                                     token2 |-> frame.token2, e |-> frame.e,
                                     hashalg |-> frame.hashalg, sig_num1 |-> frame.sig_num1,
                                     sig_num2 |-> frame.sig_num2, ks |-> frame.ks,
                                     tmp_key |-> key]
                        /\ pc' = "getHash"
                        /\ exc' = exc
  /\ UNCHANGED <<argv, alg, out>>

\* Lines 58-59: h1 and h2
GetHashes ==
  /\ pc = "getHash"
  /\ calls' = calls \cup {"getHash"}
  /\ \E h1 \in {getHash(frame.token1.header, frame.token1.body, frame.hashalg, frame.tmp_key)},
        h2 \in {getHash(frame.token2.header, frame.token2.body, frame.hashalg, frame.tmp_key)} :
         IF h1 = -1 \/ h2 = -1
         THEN Raise("ValueError") /\ UNCHANGED frame
         ELSE /\ frame' = [fn |-> "recoverRSAKey", token1 |-> frame.token1,
                           token2 |-> frame.token2, e |-> frame.e,
                           hashalg |-> frame.hashalg, sig_num1 |-> frame.sig_num1, sig_num2 |-> frame.sig_num2,
                           ks |-> frame.ks, tmp_key |-> frame.tmp_key,
                           h1 |-> h1, h2 |-> h2]
              /\ pc' = "gcd"
              /\ exc' = exc
  /\ UNCHANGED <<argv, alg, out>>

\* RSA.construct((n, e)) with its consistency check: the exponent must lie
\* in 2..n-1 and be coprime to n, and n must be odd.
PublicKeyError(n, e) ==
  IF e <= 1 \/ BigCmp(Big(e), n) >= 0 \/ BigIsEven(n) \/ BigGcd(n, Big(e)) # <<1>>
  THEN "ValueError" ELSE ""

\* Lines 62-73: the gcd, the stripping and the report
RecoverRSAReport ==
  /\ pc = "gcd"
  /\ calls' = calls \cup {"gcd", "removeSmallPrimes"}
  /\ \E n \in {RecoverModulus(frame.sig_num1, frame.sig_num2, frame.e, frame.h1, frame.h2)} :
         IF n = <<1>>
         THEN /\ out' = Append(out, <<"Failed to recover public RSA key", frame.e>>)
              /\ pc' = "exit"
              /\ exc' = exc
         ELSE IF PublicKeyError(n, frame.e) # ""
         THEN /\ out' = Append(out, <<"Found public RSA key", n, frame.e>>)
              /\ Raise(PublicKeyError(n, frame.e))
         ELSE /\ out' = Append(Append(out, <<"Found public RSA key", n, frame.e>>),
                               <<"PEM", n, frame.e>>)
              /\ pc' = "exit"
              /\ exc' = exc
  /\ UNCHANGED <<argv, alg, frame>>

EcParams(a) ==
  CASE a = ES256 -> [hashalg |-> "SHA256", curve |-> P256]
    [] a = ES384 -> [hashalg |-> "SHA384", curve |-> P384]
    [] a = ES512 -> [hashalg |-> "SHA512", curve |-> P521]
    [] OTHER     -> [hashalg |-> "", curve |-> P256]

\* handleECDSA(alg, token, compressed), lines 128-139
HandleECDSA ==
  /\ pc = "handleECDSA"
  /\ IF EcParams(alg).hashalg # ""
     THEN /\ out' = Append(out, <<"Recovering", alg>>)
          /\ pc' = "recoverECDSAKey"
          /\ calls' = calls \cup {"recoverECDSAKey"}
          /\ frame' = [fn |-> "recoverECDSAKey", token |-> argv.tokens[1],
                       hashalg |-> EcParams(alg).hashalg, curve |-> EcParams(alg).curve,
                       compressed |-> argv.compressed]
     ELSE /\ out' = Append(Append(out, <<"Recovering", alg>>), <<"unsupported", alg>>)
          /\ pc' = "exit"
          /\ UNCHANGED <<frame, calls>>
  /\ UNCHANGED <<argv, alg, exc>>

\* int(bytes.hex(), 16) of a short byte string
BytesToInt(bs) == BigVal(BytesToBig(bs))

\* recoverECDSAKey, lines 77-81: the signature is cut at len(rs) // 2,
\* whatever its length; int("", 16) raises ValueError for an empty half.
RecoverECDSASplit ==
  /\ pc = "recoverECDSAKey"
  /\ LET token == frame.token
         rs == token.sig.bytes
         n == Len(rs) \div 2
     IN  IF token.segs # 3 THEN Raise("ValueError") /\ UNCHANGED <<frame, calls>>
         ELSE IF token.sig.kind # "bytes"
         THEN Raise("binascii.Error") /\ UNCHANGED <<frame, calls>>
         ELSE IF n = 0
         THEN Raise("ValueError") /\ calls' = calls \cup {"split"} /\ UNCHANGED frame
         ELSE /\ frame' = [fn |-> "recoverECDSAKey", token |-> token,
                           hashalg |-> frame.hashalg, curve |-> frame.curve,
                           compressed |-> frame.compressed, siglen |-> Len(rs),
                           r |-> BytesToInt(SubSeq(rs, 1, n)),
                           s |-> BytesToInt(SubSeq(rs, n + 1, Len(rs)))]
              /\ calls' = calls \cup {"split"}
              /\ pc' = "mod_sqrt"
              /\ exc' = exc
  /\ UNCHANGED <<argv, alg, out>>

\* Line 83: the two square roots
RecoverECDSASqrt ==
  /\ pc = "mod_sqrt"
  /\ \E c \in {frame.curve} :
      \E ys \in {mod_sqrt((frame.r % c.p) * (frame.r % c.p) * (frame.r % c.p)
                            + c.a * (frame.r % c.p) + c.b, c.p)} :
         frame' = [fn |-> "recoverECDSAKey", token |-> frame.token,
                   hashalg |-> frame.hashalg, curve |-> c,
                   compressed |-> frame.compressed, siglen |-> frame.siglen,
                   r |-> frame.r, s |-> frame.s, y1 |-> ys[1], y2 |-> ys[2]]
  /\ calls' = calls \cup {"mod_sqrt"}
  /\ pc' = "Point"
  /\ UNCHANGED <<argv, alg, out, exc>>

\* Lines 84-87: Point(r, y, curve) raises ValueError for coordinates that
\* are not on the curve; gmpy2.invert(r, curve.q) raises ZeroDivisionError
\* when r has no inverse.
RecoverECDSAPoints ==
  /\ pc = "Point"
  /\ LET c == frame.curve
     IN  IF ~OnCurve(frame.r, frame.y1, c) \/ ~OnCurve(frame.r, frame.y2, c)
         THEN Raise("ValueError") /\ calls' = calls \cup {"Point"} /\ UNCHANGED frame
         ELSE IF invert(frame.r, c.q) = -1
         THEN /\ Raise("ZeroDivisionError")
              /\ calls' = calls \cup {"Point", "invert"}
              /\ UNCHANGED frame
         ELSE /\ frame' = [fn |-> "recoverECDSAKey", token |-> frame.token,
                           hashalg |-> frame.hashalg, curve |-> c,
                           compressed |-> frame.compressed, siglen |-> frame.siglen,
                           s |-> frame.s,
                           R1 |-> Affine(frame.r % c.p, frame.y1),
                           R2 |-> Affine(frame.r % c.p, frame.y2),
                           r_inv |-> invert(frame.r, c.q)]
              /\ calls' = calls \cup {"Point", "invert"}
              /\ pc' = "recover"
              /\ exc' = exc
  /\ UNCHANGED <<argv, alg, out>>

\* Lines 93-94: r^-1 * (s*R - h*G)
RecoverPoint(r_inv, s, R, h, curve) ==
  PointMul(r_inv,
           PointSub(PointMul(s, R, curve),
                    PointMul(h, Affine(curve.gx, curve.gy), curve), curve),
           curve)

\* Lines 89-94: the hash and the two candidate keys
RecoverECDSAKeys ==
  /\ pc = "recover"
  /\ LET c == frame.curve
         h == Digest(frame.hashalg, frame.token.header, frame.token.body)
     IN  frame' = [fn |-> "recoverECDSAKey", token |-> frame.token,
                   compressed |-> frame.compressed, siglen |-> frame.siglen,
                   k1 |-> RecoverPoint(frame.r_inv, frame.s, frame.R1, h, c),
                   k2 |-> RecoverPoint(frame.r_inv, frame.s, frame.R2, h, c)]
  /\ calls' = calls \cup {"scalar_mul"}
  /\ pc' = "export"
  /\ UNCHANGED <<argv, alg, out, exc>>

\* Lines 95-102: ECC.construct raises ValueError for a point that is not on
\* the curve, as the identity's (0, 0) is not; nothing is printed before
\* both keys are constructed.
RecoverECDSAExport ==
  /\ pc = "export"
  /\ calls' = calls \cup {"ECC.construct"}
  /\ IF frame.k1.inf \/ frame.k2.inf
     THEN Raise("ValueError") /\ out' = out
     ELSE /\ out' = out \o << <<"Found 2 public ECDSA keys">>,
                              <<"key", frame.k1, frame.compressed>>,
                              <<"key", frame.k2, frame.compressed>> >>
          /\ pc' = "exit"
          /\ exc' = exc
  /\ UNCHANGED <<argv, alg, frame>>

Next ==
  \/ Main
  \/ HandleRSA
  \/ RecoverRSADecode
  \/ GenKeyRetry
  \/ GenKey
  \/ GetHashes
  \/ RecoverRSAReport
  \/ HandleECDSA
  \/ RecoverECDSASplit
  \/ RecoverECDSASqrt
  \/ RecoverECDSAPoints
  \/ RecoverECDSAKeys
  \/ RecoverECDSAExport

Spec == Init /\ [][Next]_vars

\* ------------------------------------------------------------------------
\* The RSA path alone: command lines of two tokens the issuer signed
\* ------------------------------------------------------------------------
RsaTokens ==
  RsaSigned \cup {RsaToken(RS384, "SHA384", MinBody), RsaToken(RS512, "SHA512", MinBody)}

InitRSA ==
  /\ argv \in {[tokens |-> <<t1, t2>>, e |-> e, compressed |-> FALSE] :
                 t1 \in RsaTokens, t2 \in RsaTokens, e \in Exponents}
  /\ pc = "main"
  /\ alg = << >>
  /\ frame = NoFrame
  /\ out = << >>
  /\ calls = {}
  /\ exc = ""

NextRSA ==
  \/ Main
  \/ HandleRSA
  \/ RecoverRSADecode
  \/ GenKeyRetry
  \/ GenKey
  \/ GetHashes
  \/ RecoverRSAReport

SpecRSA == InitRSA /\ [][NextRSA]_vars

\* ------------------------------------------------------------------------
\* The numeric helpers called on their own
\* ------------------------------------------------------------------------
\* removeSmallPrimes is run on x and then on its own result; getKeysize is
\* run on a signature of a given bit length made under a modulus of nbits
\* bits (sig < n, so bits <= nbits).
MaxX == 64
MaxCofactor == 12
MaxBits == 18

\* A prime above SmallPrimeLimit, for arguments with a factor that stays.
LargePrime == next_prime(SmallPrimeLimit - 1)

HelperArgs == (1..MaxX) \cup {LargePrime * k : k \in 1..MaxCofactor}

\* The least and the greatest integer of b bits, below a modulus of nb bits.
HelperSigs ==
  {h \in {[bits |-> b, nbits |-> nb, sig |-> BigPow(<<2>>, b - 1)] :
            b \in 1..MaxBits, nb \in 1..MaxBits} : h.bits <= h.nbits}
  \cup {h \in {[bits |-> b, nbits |-> nb, sig |-> BigSub(BigPow(<<2>>, b), <<1>>)] :
                 b \in 1..MaxBits, nb \in 1..MaxBits} : h.bits < h.nbits}

InitHelpers ==
  /\ argv = [tokens |-> << >>, e |-> 3, compressed |-> FALSE]
  /\ pc = "call"
  /\ alg = << >>
  /\ frame \in {[fn |-> "removeSmallPrimes", x |-> x, passes |-> << >>] : x \in HelperArgs}
              \cup {[fn |-> "getKeysize", sig |-> h.sig, bits |-> h.bits, nbits |-> h.nbits] :
                      h \in HelperSigs}
  /\ out = << >>
  /\ calls = {}
  /\ exc = ""

\* removeSmallPrimes applied to x, then to what the pass before returned
CallRemoveSmallPrimes ==
  /\ frame.fn = "removeSmallPrimes"
  /\ Len(frame.passes) < 2
  /\ frame' = [frame EXCEPT !.passes =
                 Append(@, BigVal(removeSmallPrimes(
                             IF @ = << >> THEN Big(frame.x) ELSE Big(@[Len(@)]))))]
  /\ calls' = calls \cup {"removeSmallPrimes"}
  /\ pc' = IF Len(frame.passes) = 1 THEN "return" ELSE "call"
  /\ UNCHANGED <<argv, alg, out, exc>>

CallGetKeysize ==
  /\ frame.fn = "getKeysize"
  /\ pc = "call"
  /\ frame' = [fn |-> "getKeysize", sig |-> frame.sig, bits |-> frame.bits,
                nbits |-> frame.nbits, ks |-> getKeysize(frame.sig)]
  /\ calls' = calls \cup {"getKeysize"}
  /\ pc' = "return"
  /\ UNCHANGED <<argv, alg, out, exc>>

NextHelpers == CallRemoveSmallPrimes \/ CallGetKeysize

SpecHelpers == InitHelpers /\ [][NextHelpers]_vars

\* ------------------------------------------------------------------------
\* Properties of the dispatcher and of handleRSA
\* ------------------------------------------------------------------------

FirstAlg == argv.tokens[1].header.alg

NumericCalls ==
  {"recoverRSAKey", "getKeysize", "genKey", "getHash", "gcd", "removeSmallPrimes"}

\* A command line of two tokens whose headers decode, the first to an RS*
\* alg and the second to another alg.
MismatchedPair ==
  /\ Len(argv.tokens) = 2
  /\ argv.tokens[1].header.kind = "json"
  /\ argv.tokens[2].header.kind = "json"
  /\ Prefix2(FirstAlg) = <<"R", "S">>
  /\ argv.tokens[2].header.alg # FirstAlg

\* C4: given two tokens whose headers carry different alg values, handleRSA
\* reports the mismatch and returns; recoverRSAKey is never reached, so no
\* throwaway key is generated, no padded hash computed and no gcd taken.
C4_MismatchRefused ==
  MismatchedPair =>
    /\ calls \cap NumericCalls = {}
    /\ pc \in {"main", "handleRSA", "exit"}
    /\ frame = NoFrame
    /\ pc = "exit" =>
         out = << <<"not the same algorithm", argv.tokens[2].header.alg, FirstAlg>> >>

\* C4's case: the run of a mismatched pair has ended in handleRSA's report.
C4_Witness ==
  /\ MismatchedPair
  /\ pc = "exit"
  /\ "handleRSA" \in calls
  /\ Len(out) = 1 /\ out[1][1] = "not the same algorithm"

\* The first token's header decodes to an alg that starts with "PS" or "HS".
NoKeyAlg ==
  /\ argv.tokens[1].header.kind = "json"
  /\ Prefix2(FirstAlg) \in {<<"P", "S">>, <<"H", "S">>}

\* C5: for a first token whose alg starts with "PS" or "HS", the dispatcher
\* prints the impossibility / no-public-key message and terminates without
\* invoking handleRSA, handleECDSA, recoverRSAKey or recoverECDSAKey,
\* whatever other tokens and flags were supplied.
C5_NoRecoveryAttempt ==
  NoKeyAlg =>
    /\ calls = {}
    /\ pc \in {"main", "exit"}
    /\ frame = NoFrame
    /\ exc = ""
    /\ pc = "exit" =>
         out = << <<IF Prefix2(FirstAlg) = <<"P", "S">> THEN "pss" ELSE "hmac", FirstAlg>> >>

\* C5's case: a PS* first token with a second token and the -c flag, after
\* the dispatcher has printed its message.
C5_Witness ==
  /\ NoKeyAlg
  /\ Prefix2(FirstAlg) = <<"P", "S">>
  /\ Len(argv.tokens) = 2
  /\ argv.compressed
  /\ pc = "exit"
  /\ out = << <<"pss", FirstAlg>> >>

\* C7: every run terminates normally with a textual diagnostic and never
\* with an uncaught error, for every input.
C7_NoUncaughtError == pc # "raise" /\ exc = ""

\* ------------------------------------------------------------------------
\* Properties of recoverRSAKey
\* ------------------------------------------------------------------------

\* RSASSA-PKCS1-v1_5 verification of an RS256 token under the issuer's
\* public key.
Verifies(token) ==
  /\ token.segs = 3
  /\ token.header = Str(RS256)
  /\ token.sig.kind = "bytes"
  /\ Len(token.sig.bytes) = SizeInBytes(IssuerKey.n)
  /\ BigCmp(BytesToBig(token.sig.bytes), Big(IssuerKey.n)) < 0
  /\ PowMod(BytesToInt(token.sig.bytes), IssuerKey.e, IssuerKey.n)
       = EmsaEncode(Digest("SHA256", token.header, token.body), SizeInBytes(IssuerKey.n))

\* Two tokens the issuer signed over distinct messages, and the issuer's e.
GenuinePair ==
  /\ Len(argv.tokens) = 2
  /\ argv.tokens[1].body # argv.tokens[2].body
  /\ argv.e = IssuerKey.e
  /\ Verifies(argv.tokens[1])
  /\ Verifies(argv.tokens[2])

\* C1: for two distinct messages signed under one valid RSA key and the
\* same e, recoverRSAKey reports exactly the original modulus n, with e.
C1_ExactModulus ==
  ("gcd" \in calls /\ GenuinePair) =>
    /\ pc = "exit"
    /\ out[Len(out)] = <<"PEM", Big(IssuerKey.n), argv.e>>

CurveCalls == {"split", "mod_sqrt", "Point", "invert", "scalar_mul", "ECC.construct"}

\* The run is on the ECDSA path with a first token whose signature decodes
\* to an odd number of bytes.
OddSignature ==
  /\ "recoverECDSAKey" \in calls
  /\ argv.tokens[1].segs = 3
  /\ argv.tokens[1].sig.kind = "bytes"
  /\ Len(argv.tokens[1].sig.bytes) % 2 = 1

\* C6: an ECDSA signature with an odd number of bytes fails with a
\* structural error before any curve computation: the split into r and s,
\* the square root, the point construction and the scalar multiplications
\* are never executed on it.
C6_OddSignatureRejected ==
  OddSignature =>
    /\ calls \cap CurveCalls = {}
    /\ pc \in {"recoverECDSAKey", "raise"}

\* The first token was signed by an issuer of EcIssued.
Issued == "issuer" \in DOMAIN argv.tokens[1]

\* C2: for a signature made with a valid key pair, recoverECDSAKey emits
\* two points of which exactly one is the public key that made the
\* signature; the other is a distinct point of the same curve.
C2_ExactlyOneIsTheKey ==
  (Issued /\ pc \in {"exit", "raise"}) =>
    /\ pc = "exit"
    /\ (frame.k1 = argv.tokens[1].issuer) # (frame.k2 = argv.tokens[1].issuer)
    /\ frame.k1 # frame.k2
    /\ ~frame.k1.inf /\ OnCurve(frame.k1.x, frame.k1.y, P256)
    /\ ~frame.k2.inf /\ OnCurve(frame.k2.x, frame.k2.y, P256)
    /\ out = << <<"Recovering", ES256>>, <<"Found 2 public ECDSA keys">>,
                <<"key", frame.k1, argv.compressed>>, <<"key", frame.k2, argv.compressed>> >>

\* ------------------------------------------------------------------------
\* Properties of the numeric helpers
\* ------------------------------------------------------------------------

\* x with every prime factor below SmallPrimeLimit divided out as often as
\* it divides.
StripMore(st) == st.i < SmallPrimeLimit

StripStep(st) ==
  IF st.x % st.i = 0 THEN [x |-> st.x \div st.i, i |-> st.i]
  ELSE [x |-> st.x, i |-> next_prime(st.i)]

StrippedFully(x) == While(StripMore, StripStep, [x |-> x, i |-> 2], SmallPrimeLimit + 32).x

\* C3: removeSmallPrimes(removeSmallPrimes(x)) = removeSmallPrimes(x) for
\* every x >= 1.
C3_Idempotent ==
  (frame.fn = "removeSmallPrimes" /\ Len(frame.passes) = 2) =>
    frame.passes[2] = frame.passes[1]

\* C9: removeSmallPrimes(x) is x with every prime factor below 2000 removed
\* at its full multiplicity: no prime below 2000 divides the result.
C9_FullMultiplicity ==
  (frame.fn = "removeSmallPrimes" /\ Len(frame.passes) >= 1) =>
    /\ frame.passes[1] = StrippedFully(frame.x)
    /\ \A p \in 2..Min(frame.passes[1], SmallPrimeLimit - 1) :
         IsPrime(p) => frame.passes[1] % p # 0

IsPowerOfTwo(n) == \E k \in 0..(MaxBits + 1) : n = 2^k

\* The smallest power of two that is >= b.
NextPowerOfTwo(b, ks) ==
  /\ IsPowerOfTwo(ks)
  /\ ks >= b
  /\ \A k \in 0..(MaxBits + 1) : 2^k >= b => ks <= 2^k

\* C10 as stated: getKeysize(sig) is the smallest power of two >= the bit
\* length of sig, and it equals the bit length of the modulus that produced
\* the signature.
C10_ExactKeySize ==
  (frame.fn = "getKeysize" /\ pc = "return") =>
    /\ NextPowerOfTwo(frame.bits, frame.ks)
    /\ frame.ks = frame.nbits

\* C10, amended: getKeysize(sig) is the smallest power of two >= the bit
\* length of sig; it is the bit length of the modulus when that is a power
\* of two and sig has more than half as many bits, it differs from it when
\* it is not a power of two, and it is smaller when sig has at most half
\* as many bits as the modulus.
C10_NextPowerOfTwo ==
  (frame.fn = "getKeysize" /\ pc = "return") =>
    /\ NextPowerOfTwo(frame.bits, frame.ks)
    /\ (IsPowerOfTwo(frame.nbits) /\ 2 * frame.bits > frame.nbits) => frame.ks = frame.nbits
    /\ ~IsPowerOfTwo(frame.nbits) => frame.ks # frame.nbits
    /\ 2 * frame.bits <= frame.nbits => frame.ks < frame.nbits

\* C10's case: a signature of full length under a 16-bit modulus, and a
\* signature of 9 bits under it, both estimated as 16 bits.
C10_Witness ==
  /\ frame.fn = "getKeysize"
  /\ pc = "return"
  /\ frame.nbits = 16
  /\ frame.bits \in {9, 16}
  /\ frame.ks = 16

====
